---- MODULE Spec2Model ----
(***************************************************************************)
(* Model of the config-demo application of angular-config-blog:            *)
(*   - ConfigService.getConfig()      (app/config.service.ts)              *)
(*   - AppComponent.ngOnInit()        (app/app.component.ts)               *)
(*   - the DOMContentLoaded handler   (main.ts)                            *)
(*   - the development /config endpoint (proxy.conf.js, bypass)            *)
(*   - ServerTimeService.getTime()    (app/server-time.service.ts)         *)
(* JavaScript values keep their type: process.env holds strings, a JSON    *)
(* number literal parses to a number, and "300" is not 300.                *)
(***************************************************************************)
EXTENDS Integers, Sequences, FiniteSets, TLC

\* ------------------------------------------------------------------ bounds
\* components that call getConfig()
MaxCallers == 2
\* getConfig() calls per page (or per server process)
MaxCalls == 2

Callers == 1..MaxCallers

\* ------------------------------------------------------- JavaScript values
\* Every value is a record of one shape; scalars have no members, objects
\* have no text.  Numbers keep their decimal text (the code does no arithmetic).
JsString(s) == [type |-> "string", text |-> s, members |-> <<>>]
JsNumber(s) == [type |-> "number", text |-> s, members |-> <<>>]
JsUndefined == [type |-> "undefined", text |-> "", members |-> <<>>]
JsNull == [type |-> "null", text |-> "", members |-> <<>>]
\* an object literal: its members in insertion order, each [k, v] with v a scalar
JsObject(ms) == [type |-> "object", text |-> "", members |-> ms]
Member(key, val) == [k |-> key, v |-> [type |-> val.type, text |-> val.text]]
MemberValue(m) == [type |-> m.v.type, text |-> m.v.text, members |-> <<>>]

Range(s) == {s[i] : i \in 1..Len(s)}

\* deep (value) equality of two values: same type, same text, same members
\* whatever their order
ValueEqual(a, b) ==
    /\ a.type = b.type
    /\ a.text = b.text
    /\ Range(a.members) = Range(b.members)

\* the value of property `key` of object o (undefined when o has no such key)
Get(o, key) ==
    IF \E i \in 1..Len(o.members) : o.members[i].k = key
    THEN MemberValue(o.members[CHOOSE i \in 1..Len(o.members) : o.members[i].k = key])
    ELSE JsUndefined

HasKey(o, key) == \E i \in 1..Len(o.members) : o.members[i].k = key

\* JavaScript truthiness, as `||` tests it
Truthy(v) ==
    CASE v.type = "undefined" -> FALSE
      [] v.type = "null" -> FALSE
      [] v.type = "string" -> v.text # ""
      [] v.type = "number" -> v.text # "0"
      [] OTHER -> TRUE

\* a || b
JsOr(a, b) == IF Truthy(a) THEN a ELSE b

\* ------------------------------------------------------------------- JSON
\* JSON text is a sequence of tokens.
Tok(kind, txt) == [tok |-> kind, text |-> txt]
LBrace == Tok("{", "")
RBrace == Tok("}", "")
Colon == Tok(":", "")
Comma == Tok(",", "")

IsScalarTok(t) == t.tok \in {"str", "num", "null"}

\* variant: a number literal is read as a string
ScalarAsString(t) ==
    CASE t.tok = "str" -> JsString(t.text)
      [] t.tok = "num" -> JsString(t.text)
      [] OTHER -> JsNull

ScalarOfTok(t) ==
    CASE t.tok = "str" -> JsString(t.text)
      [] t.tok = "num" -> JsNumber(t.text)
      [] OTHER -> JsNull

TokOfScalar(v) ==
    CASE v.type = "string" -> Tok("str", v.text)
      [] v.type = "number" -> Tok("num", v.text)
      [] OTHER -> Tok("null", "")

\* JSON.stringify of the members of an object: a member whose value is
\* undefined is left out
RECURSIVE StringifyMembers(_, _)
StringifyMembers(ms, first) ==
    IF ms = <<>> THEN <<>>
    ELSE IF ms[1].v.type = "undefined" THEN StringifyMembers(Tail(ms), first)
    ELSE (IF first THEN <<>> ELSE <<Comma>>)
         \o <<Tok("str", ms[1].k), Colon, TokOfScalar(MemberValue(ms[1]))>>
         \o StringifyMembers(Tail(ms), FALSE)

\* JSON.stringify(v), v not undefined
JSONstringify(v) ==
    IF v.type = "object"
    THEN <<LBrace>> \o StringifyMembers(v.members, TRUE) \o <<RBrace>>
    ELSE <<TokOfScalar(v)>>

\* the members between the braces: [ok, members]
RECURSIVE ParseMembers(_)
ParseMembers(toks) ==
    IF Len(toks) >= 3 /\ toks[1].tok = "str" /\ toks[2] = Colon /\ IsScalarTok(toks[3])
    THEN LET m == Member(toks[1].text, ScalarOfTok(toks[3]))
         IN  IF Len(toks) = 3 THEN [ok |-> TRUE, members |-> <<m>>]
             ELSE IF toks[4] = Comma
             THEN LET rest == ParseMembers(SubSeq(toks, 5, Len(toks)))
                  IN  [ok |-> rest.ok, members |-> <<m>> \o rest.members]
             ELSE [ok |-> FALSE, members |-> <<>>]
    ELSE [ok |-> FALSE, members |-> <<>>]

\* JSON.parse(text): [ok, value]; ok = FALSE is a SyntaxError
JSONparse(toks) ==
    IF Len(toks) = 1 /\ IsScalarTok(toks[1])
    THEN [ok |-> TRUE, value |-> ScalarOfTok(toks[1])]
    ELSE IF Len(toks) = 2 /\ toks[1] = LBrace /\ toks[2] = RBrace
    THEN [ok |-> TRUE, value |-> JsObject(<<>>)]
    ELSE IF Len(toks) > 2 /\ toks[1] = LBrace /\ toks[Len(toks)] = RBrace
    THEN LET ms == ParseMembers(SubSeq(toks, 2, Len(toks) - 1))
         IN  [ok |-> ms.ok, value |-> IF ms.ok THEN JsObject(ms.members) ELSE JsUndefined]
    ELSE [ok |-> FALSE, value |-> JsUndefined]

\* ------------------------------------------------------------------ HTTP
Response(st, b) == [net |-> "ok", status |-> st, body |-> b]
\* the request never got an answer (connection refused, reset, offline)
TransportFailure == [net |-> "failed", status |-> 0, body |-> <<>>]
NoResponse == [net |-> "none", status |-> 0, body |-> <<>>]

\* ------------------------------------------------------------------ state
VARIABLES
    platformId,     \* PLATFORM_ID: "browser" or "server"
    env,            \* process.env of the serving process (node)
    mainPc,         \* main.ts, the DOMContentLoaded handler: "loading" (not yet
                    \* run), "fetching" (await fetch), "reading" (await text),
                    \* "bootstrapped", "skipped" (status not 200), "rejected"
    response,       \* main.ts: const response
    localStorage,   \* localStorage item 'config': [set, text]
    bootstraps,     \* bootstrapModule(AppModule) calls of this page load
    fetches,        \* fetch('/config') calls of this page load
    sub,            \* per caller: its latest getConfig() subscription: its state,
                    \* whether it was the first call, whether it was made before
                    \* any request settled, the response it got, the value emitted
    requests,       \* GET /config requests of HttpClient that are in flight
    configValues,   \* per caller: AppComponent.configValues
    hostErrors,     \* errors RxJS reported to the host: no error callback took them
    calls,          \* getConfig() calls so far
    gets,           \* GET /config requests HttpClient sent so far
    settles,        \* HttpClient requests settled so far
    apiServer,      \* process.env.API_SERVER
    tsub,           \* AppComponent's getTime() subscription: its state, the URL
                    \* requested, the response it got, the value emitted
    serverTime,     \* AppComponent.serverTime
    proxied         \* the development server's last call of bypass: the url and
                    \* what bypass did

vars == <<platformId, env, mainPc, response, localStorage, bootstraps, fetches, sub,
          requests, configValues, hostErrors, calls, gets, settles,
          apiServer, tsub, serverTime, proxied>>

\* the state of ServerTimeService's callers and of the development proxy
devVars == <<apiServer, tsub, serverTime, proxied>>

mainVars == <<mainPc, response, localStorage, bootstraps, fetches>>
appVars == <<sub, requests, configValues, hostErrors, calls, gets, settles>>

isPlatformServer(id) == id = "server"

\* values process.env.DEBOUNCE_TIME takes: unset, or a string
EnvValues == {JsUndefined, JsString(""), JsString("300")}

\* ----------------------------------------------------- the /config endpoint
\* variant: the switch on req.url has a default branch that answers like '/config'
bypassAnyUrl(url) ==
    [ended |-> TRUE,
     body |-> JSONstringify(JsObject(<<
                 Member("DEBOUNCE_TIME", JsOr(env.DEBOUNCE_TIME, JsNumber("500")))>>)),
     ret |-> "true"]

\* proxy.conf.js: PROXY_CONFIG['/config'].bypass(req, res, proxyOptions).
\* [ended, body, ret]: whether res.end() was called, with what, and the return value.
bypass(url) ==
    IF url = "/config"
    THEN [ended |-> TRUE,
          body |-> JSONstringify(JsObject(<<
                      Member("DEBOUNCE_TIME", JsOr(env.DEBOUNCE_TIME, JsNumber("500")))>>)),
          ret |-> "true"]
    ELSE [ended |-> FALSE, body |-> <<>>, ret |-> "undefined"]

\* what the development server answers to GET /config: res.end(body) with the
\* status node gives a response by default
DevServerResponse == Response(200, bypass("/config").body)

\* bodies other /config endpoints send
BodyNumber300 == <<LBrace, Tok("str", "DEBOUNCE_TIME"), Colon, Tok("num", "300"), RBrace>>
BodyTwoKeys ==
    <<LBrace, Tok("str", "DEBOUNCE_TIME"), Colon, Tok("num", "300"), Comma,
      Tok("str", "API_KEY"), Colon, Tok("str", "k"), RBrace>>
BodyTruncated == <<LBrace, Tok("str", "DEBOUNCE_TIME"), Colon>>
BodyEmpty == <<>>

\* answers of a /config endpoint other than the development server's
OtherResponses ==
    {Response(200, b) : b \in {BodyNumber300, BodyTwoKeys, BodyTruncated, BodyEmpty}}
    \cup {Response(201, BodyNumber300), Response(204, BodyEmpty),
          Response(500, BodyEmpty), TransportFailure}

\* every answer a GET /config can get now
EndpointResponses == {DevServerResponse} \cup OtherResponses

\* ------------------------------------------------------------- HttpClient
Next_(v, resp) == [kind |-> "next", value |-> v, status |-> resp.status]
Error_(resp) == [kind |-> "error", value |-> JsUndefined, status |-> resp.status]

\* variant: a failure is swallowed and null emitted in its place
HttpClientGetSwallowing(resp) ==
    IF resp.net = "failed" THEN Next_(JsNull, resp)
    ELSE LET text == IF resp.status = 204 THEN <<>> ELSE resp.body
             ok == resp.status >= 200 /\ resp.status < 300
             parsed == IF text = <<>> THEN [ok |-> TRUE, value |-> JsNull]
                       ELSE JSONparse(text)
         IN  IF ok /\ parsed.ok THEN Next_(parsed.value, resp) ELSE Next_(JsNull, resp)

\* this.httpClient.get('/config'), responseType json: what the observable
\* emits for a response.  A 2xx status with a body that parses (an empty body
\* is null) is next(body); everything else is error(HttpErrorResponse).
HttpClientGet(resp) ==
    IF resp.net = "failed" THEN Error_(resp)
    ELSE LET text == IF resp.status = 204 THEN <<>> ELSE resp.body
             ok == resp.status >= 200 /\ resp.status < 300
             parsed == IF text = <<>> THEN [ok |-> TRUE, value |-> JsNull]
                       ELSE JSONparse(text)
         IN  IF ok /\ parsed.ok THEN Next_(parsed.value, resp) ELSE Error_(resp)

\* variant: a subscription made while a request is in flight shares that request
SubscribeShared(reqs, c, n) ==
    IF reqs = {} THEN reqs \cup {[to |-> c, no |-> n]} ELSE reqs

\* variant: once a bundle has been emitted, later subscriptions send nothing
SubscribeMemoized(reqs, c, n) ==
    IF \E d \in Callers : sub[d].st = "next" THEN reqs ELSE reqs \cup {[to |-> c, no |-> n]}

\* variant: once a request has failed, later subscriptions send nothing
SubscribePoisoned(reqs, c, n) ==
    IF \E d \in Callers : sub[d].st = "error" THEN reqs ELSE reqs \cup {[to |-> c, no |-> n]}

\* the observable is cold: every subscription sends a request of its own
HttpClientSubscribe(reqs, c, n) == reqs \cup {[to |-> c, no |-> n]}

\* variant: retry(1) is piped in: a failed request is sent again
RequestRetried(reqs, c) ==
    IF sub'[c].st = "error" /\ sub[c].st = "pending"
    THEN {r \in reqs : r.to # c} \cup {[to |-> c, no |-> MaxCalls + 1]}
    ELSE {r \in reqs : r.to # c}

\* the request of caller c has settled: its observable is complete or failed,
\* nothing is piped in that sends it again
RequestDone(reqs, c) == {r \in reqs : r.to # c}

\* ---------------------------------------------------------- ConfigService
\* variant: the environment's string is converted to a number
ServerConfigAsNumber ==
    JsObject(<<Member("DEBOUNCE_TIME",
                      IF env.DEBOUNCE_TIME.type = "string"
                      THEN JsNumber(env.DEBOUNCE_TIME.text) ELSE env.DEBOUNCE_TIME)>>)

\* getConfig() on the server: of({DEBOUNCE_TIME: process.env.DEBOUNCE_TIME})
ServerConfig == JsObject(<<Member("DEBOUNCE_TIME", env.DEBOUNCE_TIME)>>)

Idle == [st |-> "idle", first |-> FALSE, early |-> FALSE, resp |-> NoResponse,
         value |-> JsUndefined]
Unset == [set |-> FALSE, text |-> <<>>]

\* variant: a caller is handed the outcome the first caller got, when there is one
DeliverFirstOutcome(c, resp) ==
    IF \E d \in Callers \ {c} : sub[d].first /\ sub[d].st \in {"next", "error"}
    THEN LET d == CHOOSE d \in Callers \ {c} : sub[d].first /\ sub[d].st \in {"next", "error"}
         IN  [sub EXCEPT ![c] = [st |-> sub[d].st, first |-> @.first, early |-> @.early,
                                 resp |-> resp, value |-> sub[d].value]]
    ELSE [sub EXCEPT ![c] = [st |-> HttpClientGet(resp).kind, first |-> @.first,
                             early |-> @.early, resp |-> resp,
                             value |-> HttpClientGet(resp).value]]

\* the subscription of caller c once its request got `resp`: what the
\* observable of getConfig() emits to it
Deliver(c, resp) ==
    [sub EXCEPT ![c] = [st |-> HttpClientGet(resp).kind, first |-> @.first,
                        early |-> @.early, resp |-> resp,
                        value |-> HttpClientGet(resp).value]]

\* ----------------------------------------------------------- AppComponent
\* ngOnInit: the next callback of getConfig().subscribe(...)
OnNext(cv, c, result) ==
    [cv EXCEPT ![c] = [set |-> TRUE, text |-> JSONstringify(result)]]

\* ---------------------------------------------------------------- main.ts
\* variant: if (response.ok)
StatusIs2xx(resp) == resp.status >= 200 /\ resp.status < 300

\* if (response.status === 200)
StatusIs200(resp) == resp.status = 200

\* variant: the parsed body is handed to setItem, which stores an object's
\* string conversion
SetItemObject(text) == [set |-> TRUE, text |-> <<Tok("word", "[object Object]")>>]

\* localStorage.setItem('config', result): the text is stored as it is
SetItem(text) == [set |-> TRUE, text |-> text]

\* ------------------------------------------------------ ServerTimeService
\* a URL is a string, kept as the sequence of the non-empty strings it was
\* concatenated from
path == <<"/api/servertime">>

\* the origin of the API server in a deployment that sets API_SERVER
ApiOrigin == "http://myinternalhost:8080"

\* the values process.env.API_SERVER can have: unset, empty, an origin
ApiServerValues == {JsUndefined, JsString(""), JsString(ApiOrigin)}

\* the string a value becomes as the left operand of `+` with a string
JsToString(v) ==
    CASE v.type = "undefined" -> <<"undefined">>
      [] v.type = "null" -> <<"null">>
      [] v.text = "" -> <<>>
      [] OTHER -> <<v.text>>

\* variant: the browser-only service, which requests the path on every platform
getTimeUrlRelative == path

\* getTime(): isPlatformServer(this.platformId) ? process.env.API_SERVER + path : path
getTimeUrl == IF isPlatformServer(platformId) THEN JsToString(apiServer) \o path ELSE path

\* .pipe(map((data: any) => data.servertime)): a next is mapped to the
\* property of its value; reading a property of null throws, which errors
\* the observable; an error passes through
MapServertime(out) ==
    IF out.kind = "next"
    THEN IF out.value.type = "null"
         THEN [kind |-> "error", value |-> JsUndefined, status |-> out.status]
         ELSE [out EXCEPT !.value = Get(out.value, "servertime")]
    ELSE out

BodyTime == JSONstringify(JsObject(<<Member("servertime", JsString("12:00:00"))>>))
BodyNoTime == JSONstringify(JsObject(<<Member("time", JsString("12:00:00"))>>))

\* answers a GET of the server time can get
TimeResponses ==
    {Response(200, BodyTime), Response(200, BodyNoTime), Response(200, BodyEmpty),
     Response(500, BodyEmpty), TransportFailure}

TimeIdle == [st |-> "idle", url |-> <<>>, resp |-> NoResponse, value |-> JsUndefined]
NoTime == [set |-> FALSE, value |-> JsUndefined]

\* the development server has not been asked anything
NotProxied == [url |-> "", ended |-> FALSE, body |-> <<>>, ret |-> "undefined"]

\* urls the development server hands to bypass: those under the context '/config'
ConfigContextUrls == {"/config", "/config?x=1", "/config/a"}

\* ------------------------------------------------------------------- Init
Init ==
    /\ platformId \in {"browser", "server"}
    /\ env \in [DEBOUNCE_TIME : EnvValues]
    /\ mainPc = "loading"
    /\ response = NoResponse
    /\ localStorage = Unset
    /\ bootstraps = 0
    /\ fetches = 0
    /\ sub = [c \in Callers |-> Idle]
    /\ requests = {}
    /\ configValues = [c \in Callers |-> Unset]
    /\ hostErrors = 0
    /\ calls = 0
    /\ gets = 0
    /\ settles = 0
    /\ apiServer = JsString(ApiOrigin)
    /\ tsub = TimeIdle
    /\ serverTime = NoTime
    /\ proxied = NotProxied

\* the deployment restarts the serving process with another environment
EnvChange ==
    /\ \E v \in EnvValues \ {env.DEBOUNCE_TIME} : env' = [env EXCEPT !.DEBOUNCE_TIME = v]
    /\ UNCHANGED <<platformId, mainVars, appVars, devVars>>

\* variant: a stored 'config' is used as it is, without a fetch
DOMContentLoadedCached ==
    /\ platformId = "browser"
    /\ mainPc = "loading"
    /\ IF localStorage.set
       THEN /\ mainPc' = "bootstrapped"
            /\ bootstraps' = bootstraps + 1
            /\ UNCHANGED fetches
       ELSE /\ mainPc' = "fetching"
            /\ fetches' = fetches + 1
            /\ UNCHANGED bootstraps
    /\ UNCHANGED <<platformId, env, response, localStorage, appVars, devVars>>

\* main.ts: the DOMContentLoaded handler runs up to `await fetch('/config')`
DOMContentLoaded ==
    /\ platformId = "browser"
    /\ mainPc = "loading"
    /\ mainPc' = "fetching"
    /\ fetches' = fetches + 1
    /\ UNCHANGED <<platformId, env, response, localStorage, bootstraps, appVars, devVars>>

\* variant: bootstrapModule is called before the body is read and stored
FetchResolveEager ==
    /\ mainPc = "fetching"
    /\ \E resp \in EndpointResponses \ {TransportFailure} :
        /\ response' = resp
        /\ IF StatusIs200(resp)
           THEN mainPc' = "bootstrapped" /\ bootstraps' = bootstraps + 1
           ELSE mainPc' = "skipped" /\ UNCHANGED bootstraps
    /\ UNCHANGED <<platformId, env, localStorage, fetches, appVars, devVars>>

\* main.ts: fetch resolves with a response; the handler tests its status and
\* runs up to `await response.text()`, or to its end
FetchResolve ==
    /\ mainPc = "fetching"
    /\ \E resp \in EndpointResponses \ {TransportFailure} :
        /\ response' = resp
        /\ mainPc' = IF StatusIs200(resp) THEN "reading" ELSE "skipped"
    /\ UNCHANGED <<platformId, env, localStorage, bootstraps, fetches, appVars, devVars>>

\* variant: a rejected fetch is caught and the fetch made again
FetchRejectRetry ==
    /\ mainPc = "fetching"
    /\ fetches < MaxCalls
    /\ fetches' = fetches + 1
    /\ UNCHANGED <<platformId, env, mainPc, response, localStorage, bootstraps, appVars,
                   devVars>>

\* main.ts: fetch rejects; the handler's promise rejects with it
FetchReject ==
    /\ mainPc = "fetching"
    /\ mainPc' = "rejected"
    /\ UNCHANGED <<platformId, env, response, localStorage, bootstraps, fetches, appVars, devVars>>

\* main.ts: response.text() resolves; setItem, then bootstrapModule
TextResolve ==
    /\ mainPc = "reading"
    /\ localStorage' = SetItem(response.body)
    /\ bootstraps' = bootstraps + 1
    /\ mainPc' = "bootstrapped"
    /\ UNCHANGED <<platformId, env, response, fetches, appVars, devVars>>

\* the user reloads the page: the document and the app are gone, requests
\* are aborted, localStorage stays
Reload ==
    /\ platformId = "browser"
    /\ mainPc \in {"bootstrapped", "skipped", "rejected"}
    /\ mainPc' = "loading"
    /\ response' = NoResponse
    /\ bootstraps' = 0
    /\ fetches' = 0
    /\ sub' = [c \in Callers |-> Idle]
    /\ requests' = {}
    /\ configValues' = [c \in Callers |-> Unset]
    /\ hostErrors' = 0
    /\ calls' = 0
    /\ gets' = 0
    /\ settles' = 0
    /\ UNCHANGED <<platformId, env, localStorage, devVars>>

\* caller c calls getConfig() and subscribes, on the server: of(...) emits
\* in the subscribe call
GetConfigServer(c) ==
    /\ isPlatformServer(platformId)
    /\ calls < MaxCalls
    /\ calls' = calls + 1
    /\ sub' = [sub EXCEPT ![c] = [st |-> "next", first |-> calls = 0, early |-> calls = 0,
                                  resp |-> NoResponse, value |-> ServerConfig]]
    /\ configValues' = OnNext(configValues, c, ServerConfig)
    /\ UNCHANGED <<platformId, env, mainVars, requests, hostErrors, gets, settles, devVars>>

\* caller c calls getConfig() and subscribes, in the browser
GetConfigBrowser(c) ==
    /\ ~isPlatformServer(platformId)
    /\ mainPc = "bootstrapped"
    /\ sub[c].st # "pending"
    /\ calls < MaxCalls
    /\ calls' = calls + 1
    /\ requests' = HttpClientSubscribe(requests, c, calls + 1)
    /\ gets' = gets + Cardinality(requests' \ requests)
    /\ sub' = [sub EXCEPT ![c] = [st |-> "pending", first |-> calls = 0, early |-> settles = 0,
                                  resp |-> NoResponse, value |-> JsUndefined]]
    /\ UNCHANGED <<platformId, env, mainVars, configValues, hostErrors, settles, devVars>>

\* the request of caller c's subscription settles; the subscriber has a next
\* callback and no error callback
HttpSettle(c) ==
    /\ \E r \in requests : r.to = c
    /\ \E resp \in EndpointResponses : sub' = Deliver(c, resp)
    /\ IF sub'[c].st = "next"
       THEN /\ configValues' = OnNext(configValues, c, sub'[c].value)
            /\ UNCHANGED hostErrors
       ELSE /\ hostErrors' = hostErrors + 1
            /\ UNCHANGED configValues
    /\ requests' = RequestDone(requests, c)
    /\ settles' = settles + 1
    /\ UNCHANGED <<platformId, env, mainVars, calls, gets, devVars>>

\* ------------------------------------------- the server time and the proxy
\* the deployment restarts the serving process with another API_SERVER
ApiServerChange ==
    /\ \E v \in ApiServerValues \ {apiServer} : apiServer' = v
    /\ UNCHANGED <<platformId, env, mainVars, appVars, tsub, serverTime, proxied>>

\* AppComponent.ngOnInit: getTime() is called and subscribed to; in the
\* browser the component exists once the app is bootstrapped
GetTime ==
    /\ isPlatformServer(platformId) \/ mainPc = "bootstrapped"
    /\ tsub.st # "pending"
    /\ tsub' = [st |-> "pending", url |-> getTimeUrl, resp |-> NoResponse,
                value |-> JsUndefined]
    /\ serverTime' = NoTime
    /\ UNCHANGED <<platformId, env, mainVars, appVars, apiServer, proxied>>

\* the request of getTime() settles; the next callback stores the result
TimeSettle ==
    /\ tsub.st = "pending"
    /\ \E resp \in TimeResponses :
        LET out == MapServertime(HttpClientGet(resp))
        IN  /\ tsub' = [tsub EXCEPT !.st = out.kind, !.resp = resp, !.value = out.value]
            /\ IF out.kind = "next"
               THEN serverTime' = [set |-> TRUE, value |-> out.value]
               ELSE UNCHANGED serverTime
    /\ UNCHANGED <<platformId, env, mainVars, appVars, apiServer, proxied>>

\* the development server gets a request under the context '/config' and
\* calls bypass
BypassRequest ==
    /\ \E url \in ConfigContextUrls :
        proxied' = [url |-> url, ended |-> bypass(url).ended, body |-> bypass(url).body,
                    ret |-> bypass(url).ret]
    /\ UNCHANGED <<platformId, env, mainVars, appVars, apiServer, tsub, serverTime>>

\* the app has started: on the server, or in a browser whose page got the
\* development server's bundle and bootstrapped
InitDev ==
    /\ platformId \in {"browser", "server"}
    /\ env \in [DEBOUNCE_TIME : EnvValues]
    /\ IF platformId = "browser"
       THEN /\ mainPc = "bootstrapped"
            /\ response = DevServerResponse
            /\ localStorage = SetItem(DevServerResponse.body)
            /\ bootstraps = 1
            /\ fetches = 1
       ELSE /\ mainPc = "loading"
            /\ response = NoResponse
            /\ localStorage = Unset
            /\ bootstraps = 0
            /\ fetches = 0
    /\ sub = [c \in Callers |-> Idle]
    /\ requests = {}
    /\ configValues = [c \in Callers |-> Unset]
    /\ hostErrors = 0
    /\ calls = 0
    /\ gets = 0
    /\ settles = 0
    /\ apiServer \in ApiServerValues
    /\ tsub = TimeIdle
    /\ serverTime = NoTime
    /\ proxied = NotProxied

NextDev ==
    \/ EnvChange
    \/ ApiServerChange
    \/ GetTime
    \/ TimeSettle
    \/ BypassRequest

SpecDev == InitDev /\ [][NextDev]_vars

Next ==
    \/ EnvChange
    \/ DOMContentLoaded
    \/ FetchResolve
    \/ FetchReject
    \/ TextResolve
    \/ Reload
    \/ \E c \in Callers : GetConfigServer(c)
    \/ \E c \in Callers : GetConfigBrowser(c)
    \/ \E c \in Callers : HttpSettle(c)

Spec == Init /\ [][Next]_vars

Browser == ~isPlatformServer(platformId)
Pending == {c \in Callers : sub[c].st = "pending"}
Settled == {c \in Callers : sub[c].st \in {"next", "error"}}
\* caller c subscribes in this step
Subscribes(c) == sub[c].st # "pending" /\ sub'[c].st = "pending"
\* the request of caller c settles in this step
Settles(c) == sub[c].st = "pending" /\ sub'[c].st \in {"next", "error"}

\* ---------------------------------------------------------------------- C1
\* C1 as claimed: in the client context at most one GET /config is in flight,
\* and the callers that subscribe before the first resolution settles cause
\* one GET /config between them.
C1_SingleRequest ==
    Browser => /\ Cardinality(requests) <= 1
               /\ (settles = 0 => gets <= 1)

\* C1 as amended: in the client context every getConfig() subscription sends
\* a GET /config of its own: the requests sent are as many as the calls, and
\* the requests in flight are one per caller that is still waiting.
C1_RequestPerSubscription ==
    Browser => /\ gets = calls
               /\ Cardinality(requests) = Cardinality(Pending)
               /\ \A c \in Pending : \E r \in requests : r.to = c
               /\ \A r \in requests : r.to \in Pending

\* C1, the case: every caller has subscribed before any resolution settled
C1_Witness ==
    /\ Browser
    /\ settles = 0
    /\ Pending = Callers
    /\ gets = MaxCallers
    /\ Cardinality(requests) = MaxCallers

\* ---------------------------------------------------------------------- C2
\* C2 as claimed: a caller whose call was issued before the first resolution
\* settled observes the outcome of the first caller: both a bundle, and the
\* bundles value-equal, or both an error, and the same error.
C2_SameOutcomeAsFirst ==
    \A c, d \in Settled :
        sub[c].first /\ sub[d].early =>
            /\ sub[d].st = sub[c].st
            /\ ValueEqual(sub[d].value, sub[c].value)
            /\ sub[d].resp.status = sub[c].resp.status

\* C2 as amended: every caller observes the outcome of its own resolution, in
\* the client context what HttpClient makes of the response to its own
\* request, on the server the environment as it is at its own call; and a
\* caller's resolution changes the outcome of no other caller.
C2_OwnOutcome ==
    [][\A c \in Callers :
        /\ Settles(c) =>
              /\ sub'[c].st = HttpClientGet(sub'[c].resp).kind
              /\ sub'[c].value = HttpClientGet(sub'[c].resp).value
              /\ \A d \in Callers \ {c} : sub'[d] = sub[d]
        /\ isPlatformServer(platformId) /\ calls' = calls + 1 /\ sub'[c] # sub[c] =>
              /\ sub'[c].st = "next"
              /\ sub'[c].value = ServerConfig
              /\ \A d \in Callers \ {c} : sub'[d] = sub[d]
      ]_vars

\* C2, the case: the first caller and another caller, both issued before any
\* resolution settled, have observed different outcomes
C2_Witness ==
    \E c, d \in Callers :
        /\ Browser
        /\ sub[c].first /\ sub[d].early /\ d # c
        /\ sub[c].st = "next" /\ sub[d].st = "error"

\* ---------------------------------------------------------------------- C3
\* C3 as claimed: once a caller holds a bundle, no step sends a further
\* GET /config, and every bundle emitted later is the one already held.
C3_TerminalResolved ==
    [][(\E d \in Callers : sub[d].st = "next") =>
          /\ gets' <= gets
          /\ \A c \in Callers :
                sub'[c].st = "next" /\ sub'[c] # sub[c] =>
                    \E d \in Callers : sub[d].st = "next"
                                       /\ ValueEqual(sub'[c].value, sub[d].value)
      ]_vars

\* C3 as amended: nothing is memoized and no state is terminal: in the client
\* context a getConfig() call made while a caller holds a bundle sends a
\* further GET /config of its own, and on the server a later call reads the
\* environment again.
C3_EveryCallResolves ==
    [][\A c \in Callers :
        /\ (\E d \in Callers : sub[d].st = "next") /\ Subscribes(c) =>
              /\ gets' = gets + 1
              /\ \E r \in requests' \ requests : r.to = c
        /\ isPlatformServer(platformId) /\ calls > 0 /\ calls' = calls + 1
           /\ sub'[c] # sub[c] =>
              /\ gets' = gets
              /\ Get(sub'[c].value, "DEBOUNCE_TIME") = env.DEBOUNCE_TIME
      ]_vars

\* C3, the case: a caller holds a bundle and the request of a call made
\* after that resolution is in flight
C3_Witness ==
    \E c, d \in Callers :
        /\ Browser
        /\ sub[d].st = "next"
        /\ sub[c].st = "pending" /\ ~sub[c].early
        /\ gets = 2
        /\ \E r \in requests : r.to = c

\* ---------------------------------------------------------------------- C4
\* C4: in the client context a response with status 500 makes getConfig()
\* fail (an error carrying the status, no bundle); a getConfig() call made
\* after such a failure sends a new GET /config and starts with no outcome;
\* and a request that then gets status 200 with a well-formed body gives its
\* caller the bundle.
C4_RetryAfter500 ==
    [][\A c \in Callers :
        /\ Settles(c) /\ sub'[c].resp.net = "ok" /\ sub'[c].resp.status = 500 =>
              /\ sub'[c].st = "error"
              /\ sub'[c].value = JsUndefined
              /\ configValues'[c] = configValues[c]
        /\ (\E d \in Callers : sub[d].st = "error" /\ sub[d].resp.status = 500)
           /\ Subscribes(c) =>
              /\ gets' = gets + 1
              /\ \E r \in requests' \ requests : r.to = c
              /\ sub'[c].resp = NoResponse
        /\ hostErrors > 0 /\ Settles(c) /\ sub'[c].resp.net = "ok"
           /\ sub'[c].resp.status = 200 /\ JSONparse(sub'[c].resp.body).ok =>
              /\ sub'[c].st = "next"
              /\ sub'[c].value = JSONparse(sub'[c].resp.body).value
              /\ configValues'[c] = [set |-> TRUE, text |-> JSONstringify(sub'[c].value)]
      ]_vars

\* C4, the case: a request got status 500 and failed, and a call made after
\* that failure has got its bundle
C4_Witness ==
    \E c, d \in Callers :
        /\ Browser
        /\ sub[d].st = "error" /\ sub[d].resp.net = "ok" /\ sub[d].resp.status = 500
        /\ sub[c].st = "next" /\ ~sub[c].early
        /\ sub[c].value.type = "object"
        /\ configValues[c].set

\* caller c calls getConfig() on the server in this step
ServerCall(c) ==
    isPlatformServer(platformId) /\ calls' = calls + 1 /\ sub'[c] # sub[c]

\* ---------------------------------------------------------------------- C5
\* C5 as claimed: on the server getConfig() sends no request, and with
\* DEBOUNCE_TIME=300 in the environment the bundle's DEBOUNCE_TIME is the
\* number 300.
C5_ServerNumber300 ==
    [][\A c \in Callers :
        ServerCall(c) =>
            /\ gets' = 0 /\ requests' = {}
            /\ env.DEBOUNCE_TIME = JsString("300") =>
                  Get(sub'[c].value, "DEBOUNCE_TIME") = JsNumber("300")
      ]_vars

\* C5 as amended: on the server no request is ever sent or in flight, and a
\* getConfig() call emits at once an object whose only key is DEBOUNCE_TIME
\* and whose value is that of the environment variable as it is, a string:
\* with DEBOUNCE_TIME=300 it is the string "300".
C5_ServerFromEnvironment ==
    [][/\ isPlatformServer(platformId) =>
            gets' = 0 /\ requests' = {} /\ fetches' = 0 /\ settles' = 0
       /\ \A c \in Callers :
            ServerCall(c) =>
                /\ sub'[c].st = "next"
                /\ sub'[c].resp = NoResponse
                /\ sub'[c].value.type = "object"
                /\ Len(sub'[c].value.members) = 1
                /\ HasKey(sub'[c].value, "DEBOUNCE_TIME")
                /\ Get(sub'[c].value, "DEBOUNCE_TIME") = env.DEBOUNCE_TIME
                /\ env.DEBOUNCE_TIME.type = "string" =>
                      Get(sub'[c].value, "DEBOUNCE_TIME").type = "string"
                /\ env.DEBOUNCE_TIME = JsString("300") =>
                      Get(sub'[c].value, "DEBOUNCE_TIME") = JsString("300")
      ]_vars

\* C5, the case: on the server, with DEBOUNCE_TIME=300, a caller has its bundle
C5_Witness ==
    \E c \in Callers :
        /\ isPlatformServer(platformId)
        /\ env.DEBOUNCE_TIME = JsString("300")
        /\ sub[c].st = "next"
        /\ Get(sub[c].value, "DEBOUNCE_TIME") = JsString("300")
        /\ gets = 0

\* ---------------------------------------------------------------------- C6
\* C6: on the server, with DEBOUNCE_TIME unset, the bundle getConfig() emits
\* has DEBOUNCE_TIME 500, the default.
C6_ServerDefault500 ==
    [][\A c \in Callers :
        ServerCall(c) /\ env.DEBOUNCE_TIME = JsUndefined =>
            Get(sub'[c].value, "DEBOUNCE_TIME") = JsNumber("500")
      ]_vars

\* ---------------------------------------------------------------------- C7
\* C7: a bundle resolved in the client context from the development server's
\* answer is value-equal to the bundle the server context resolves from the
\* same environment.
C7_ServerEqualsClient ==
    [][\A c \in Callers :
        Settles(c) /\ sub'[c].resp = DevServerResponse =>
            /\ sub'[c].st = "next"
            /\ ValueEqual(sub'[c].value, ServerConfig)
      ]_vars

\* ---------------------------------------------------------------------- C8
\* C8: in the client context a 200 response with body {"DEBOUNCE_TIME":300}
\* resolves to {DEBOUNCE_TIME: 300}, the number; and whenever a bundle is
\* emitted for a response with a body, it has exactly the keys of the body,
\* each with the value and the type the body gives it.
C8_BundleIsParsedBody ==
    \A c \in Callers :
        Browser /\ sub[c].st = "next" /\ sub[c].resp.status # 204
        /\ sub[c].resp.body # <<>> =>
            LET b == sub[c].resp.body
                v == sub[c].value
                keys == {i \in 1..(Len(b) - 2) : b[i].tok = "str" /\ b[i + 1] = Colon}
            IN  /\ sub[c].resp.body = BodyNumber300 =>
                      v = JsObject(<<Member("DEBOUNCE_TIME", JsNumber("300"))>>)
                /\ v.type = "object"
                /\ Len(v.members) = Cardinality(keys)
                /\ \A i \in keys :
                      /\ HasKey(v, b[i].text)
                      /\ b[i + 2].tok = "num" => Get(v, b[i].text) = JsNumber(b[i + 2].text)
                      /\ b[i + 2].tok = "str" => Get(v, b[i].text) = JsString(b[i + 2].text)
                /\ \A j \in 1..Len(v.members) : \E i \in keys : b[i].text = v.members[j].k

\* C8, the case: a caller got status 200 with body {"DEBOUNCE_TIME":300}, and
\* another a body of two keys
C8_Witness ==
    \E c, d \in Callers :
        /\ Browser
        /\ sub[c].st = "next" /\ sub[c].resp = Response(200, BodyNumber300)
        /\ sub[d].st = "next" /\ sub[d].resp = Response(200, BodyTwoKeys)

\* ---------------------------------------------------------------------- C9
\* what main.ts does with a response whose status is not 200, or with no
\* response: nothing is stored and the application is not bootstrapped
MainSkipsNon200 ==
    /\ mainPc = "fetching" /\ mainPc' # "fetching"
       /\ ~(response'.net = "ok" /\ response'.status = 200) =>
          /\ mainPc' \in {"skipped", "rejected"}
          /\ localStorage' = localStorage
          /\ bootstraps' = bootstraps
    /\ bootstraps' > bootstraps \/ localStorage' # localStorage =>
          response.net = "ok" /\ response.status = 200

\* C9 as claimed: main.ts and getConfig() both treat every status other than
\* 200 as a failure: nothing is stored, nothing is delivered.
C9_Non200Fails ==
    [][/\ MainSkipsNon200
       /\ \A c \in Callers :
            Settles(c) /\ sub'[c].resp.net = "ok" /\ sub'[c].resp.status # 200 =>
                /\ sub'[c].st = "error"
                /\ configValues'[c] = configValues[c]
      ]_vars

\* C9 as amended: main.ts treats every status other than 200 as a failure;
\* getConfig() treats the statuses outside 200..299 as failures, and for a
\* 2xx status other than 200 it delivers the body (null when there is none).
C9_Non200MainNon2xxService ==
    [][/\ MainSkipsNon200
       /\ \A c \in Callers :
            Settles(c) /\ sub'[c].resp.net = "ok" =>
                LET r == sub'[c].resp
                IN  /\ r.status < 200 \/ r.status > 299 =>
                          /\ sub'[c].st = "error"
                          /\ configValues'[c] = configValues[c]
                    /\ r.status \in 201..299
                       /\ (r.status = 204 \/ r.body = <<>> \/ JSONparse(r.body).ok) =>
                          /\ sub'[c].st = "next"
                          /\ configValues'[c].set
                          /\ r.status = 204 \/ r.body = <<>> => sub'[c].value = JsNull
                          /\ r.status # 204 /\ r.body # <<>> =>
                                sub'[c].value = JSONparse(r.body).value
      ]_vars

\* C9, the case: a caller of getConfig() got status 201 and holds the bundle
C9_Witness ==
    \E c \in Callers :
        /\ Browser
        /\ sub[c].resp = Response(201, BodyNumber300)
        /\ sub[c].st = "next"
        /\ Get(sub[c].value, "DEBOUNCE_TIME") = JsNumber("300")
        /\ configValues[c].set

\* --------------------------------------------------------------------- C10
\* a response that is a failure for HttpClient: no answer, a status outside
\* 200..299, or a body that is there and does not parse
IsFailure(resp) ==
    \/ resp.net = "failed"
    \/ resp.status < 200 \/ resp.status > 299
    \/ resp.status # 204 /\ resp.body # <<>> /\ ~JSONparse(resp.body).ok

\* a response that is a failure as the claim counts them: no answer, a
\* status outside 200..299, or a body that is no JSON text
IsClaimedFailure(resp) ==
    \/ resp.net = "failed"
    \/ resp.status < 200 \/ resp.status > 299
    \/ resp.status # 204 /\ ~JSONparse(resp.body).ok

\* C10 as claimed: a caller whose resolution failed has received the error:
\* its subscription failed, and no error was left to the host because no
\* callback of the caller took it.
C10_FailureReachesCaller ==
    \A c \in Callers :
        Browser /\ sub[c].st \in {"next", "error"} /\ IsClaimedFailure(sub[c].resp) =>
            /\ sub[c].st = "error"
            /\ hostErrors = 0

\* C10 as amended: for a transport failure, a status outside 200..299 or a
\* body that does not parse, the observable of getConfig() emits an error and
\* no bundle; the caller, AppComponent, subscribes with a next callback only:
\* its configValues stays as it was and the error goes to the host as
\* unhandled.  A 2xx response without a body is no failure: null is emitted.
C10_FailuresAreErrors ==
    [][\A c \in Callers :
        /\ Settles(c) /\ IsFailure(sub'[c].resp) =>
              /\ sub'[c].st = "error"
              /\ sub'[c].value = JsUndefined
              /\ configValues' = configValues
              /\ hostErrors' = hostErrors + 1
        /\ Settles(c) /\ sub'[c].resp.net = "ok" /\ sub'[c].resp.status \in 200..299
           /\ (sub'[c].resp.status = 204 \/ sub'[c].resp.body = <<>>) =>
              /\ sub'[c].st = "next"
              /\ sub'[c].value = JsNull
              /\ hostErrors' = hostErrors
      ]_vars

\* C10, the case: one request got no answer and another a body that does not
\* parse; both subscriptions failed and neither caller has a value
C10_Witness ==
    \E c, d \in Callers :
        /\ Browser
        /\ sub[c].st = "error" /\ sub[c].resp = TransportFailure
        /\ sub[d].st = "error" /\ sub[d].resp = Response(200, BodyTruncated)
        /\ ~configValues[c].set /\ ~configValues[d].set
        /\ hostErrors = 2

\* --------------------------------------------------------------------- C11
\* bundles a /config endpoint serializes: the development server's, and the
\* ones behind the bodies other endpoints send
ConfigBundles ==
    {JsObject(<<Member("DEBOUNCE_TIME", v)>>) :
        v \in {JsNumber("500"), JsString("300"), JsNumber("300")}}
    \cup {JsObject(<<Member("DEBOUNCE_TIME", JsNumber("300")), Member("API_KEY", JsString("k"))>>)}

\* C11: round trip.  Once main.ts has resolved with a response whose body is
\* the serialization of a bundle, the text stored under 'config' deserializes
\* and the result is value-equal to that bundle.
C11_StoredRoundTrip ==
    \A b \in ConfigBundles :
        (mainPc = "bootstrapped" /\ response.body = JSONstringify(b))
            => /\ localStorage.set
               /\ JSONparse(localStorage.text).ok
               /\ ValueEqual(JSONparse(localStorage.text).value, b)

\* the two-member bundle was sent, stored and reads back with both members
C11_Witness ==
    /\ mainPc = "bootstrapped"
    /\ response.body = BodyTwoKeys
    /\ localStorage.set
    /\ JSONparse(localStorage.text).ok
    /\ Len(JSONparse(localStorage.text).value.members) = 2

\* --------------------------------------------------------------------- C12
\* C12: no automatic retry.  The count of GETs grows by one and only in a
\* step where a caller calls getConfig() and subscribes; a request appears
\* only in such a step; when the request of a caller settles, whatever the
\* outcome, no GET is counted and no request for that caller stays or appears.
C12_NoAutomaticRetry ==
    [][/\ gets' > gets =>
            /\ gets' = gets + 1
            /\ calls' = calls + 1
            /\ \E c \in Callers : Subscribes(c)
       /\ (requests' \subseteq requests) \/ (\E c \in Callers : Subscribes(c))
       /\ \A c \in Callers :
            Settles(c) => /\ gets' = gets
                          /\ calls' = calls
                          /\ requests' \subseteq requests
                          /\ \A r \in requests' : r.to # c
       /\ gets' <= calls']_vars

\* one call has failed and nothing is in flight: one GET was sent for it
C12_Witness ==
    /\ Browser
    /\ calls = 1
    /\ gets = 1
    /\ settles = 1
    /\ requests = {}
    /\ \E c \in Callers : sub[c].st = "error"

\* --------------------------------------------------------------------- C13
\* getTime() is called and subscribed to in this step
TimeSubscribes == tsub.st # "pending" /\ tsub'.st = "pending"
\* the request of getTime() settles with an emission in this step
TimeEmits == tsub.st = "pending" /\ tsub'.st = "next"

\* C13: getTime() requests exactly '/api/servertime' in the browser, and on
\* the server the value of API_SERVER immediately followed by
\* '/api/servertime' (an unset API_SERVER contributes the text "undefined",
\* an empty one nothing); what it emits is exactly the 'servertime' member
\* of the response body, and that is what AppComponent.serverTime becomes.
C13_TimeUrlAndField ==
    [][/\ TimeSubscribes =>
            /\ Browser => tsub'.url = <<"/api/servertime">>
            /\ (~Browser /\ apiServer.type = "string" /\ apiServer.text # "")
                    => tsub'.url = <<apiServer.text, "/api/servertime">>
            /\ (~Browser /\ apiServer.type = "string" /\ apiServer.text = "")
                    => tsub'.url = <<"/api/servertime">>
            /\ (~Browser /\ apiServer.type = "undefined")
                    => tsub'.url = <<"undefined", "/api/servertime">>
       /\ TimeEmits =>
            /\ tsub'.url = tsub.url
            /\ JSONparse(tsub'.resp.body).ok
            /\ tsub'.value = Get(JSONparse(tsub'.resp.body).value, "servertime")
            /\ serverTime' = [set |-> TRUE, value |-> tsub'.value]]_vars

\* on the server, with API_SERVER set, the time was requested from the API
\* server and the component shows the servertime member of the answer
C13_Witness ==
    /\ ~Browser
    /\ tsub.st = "next"
    /\ tsub.url = <<ApiOrigin, "/api/servertime">>
    /\ tsub.resp = Response(200, BodyTime)
    /\ serverTime = [set |-> TRUE, value |-> JsString("12:00:00")]

\* --------------------------------------------------------------------- C14
\* some code of the app has run on this page
AppHasRun == calls > 0 \/ \E c \in Callers : sub[c].st # "idle"

\* C14: on a page the app is bootstrapped at most once, and only when the
\* body of this page's /config response is what localStorage holds under
\* 'config'; code of the app runs only on a bootstrapped page, so it finds
\* 'config' present.
C14_StoredBeforeBootstrap ==
    /\ bootstraps <= 1
    /\ bootstraps = 1 <=> mainPc = "bootstrapped"
    /\ bootstraps = 1 => /\ localStorage.set
                          /\ localStorage.text = response.body
    /\ (Browser /\ AppHasRun) => (bootstraps = 1 /\ localStorage.set)

\* the app is bootstrapped, a component has got its bundle, 'config' is stored
C14_Witness ==
    /\ Browser
    /\ bootstraps = 1
    /\ localStorage.set
    /\ localStorage.text = response.body
    /\ \E c \in Callers : sub[c].st = "next"

\* --------------------------------------------------------------------- C15
\* C15: every page start fetches /config, whatever localStorage holds: a page
\* past its start has made exactly one fetch, and a bootstrapped page got a
\* 200 whose body is what 'config' now holds, whatever it held before.
C15_LiveFetchEveryStart ==
    /\ mainPc = "loading" => fetches = 0
    /\ (Browser /\ mainPc # "loading") => fetches = 1
    /\ mainPc = "bootstrapped" => /\ response.net = "ok"
                                  /\ response.status = 200
                                  /\ localStorage = SetItem(response.body)

\* a page is fetching /config although an earlier start stored a value
C15_Witness ==
    /\ mainPc = "fetching"
    /\ fetches = 1
    /\ localStorage.set

\* --------------------------------------------------------------------- C16
\* the pre-bootstrap fetch of this page has failed
MainFailed == mainPc \in {"skipped", "rejected"}

\* C16: when the fetch of /config fails (a status other than 200, or a
\* rejected fetch) 'config' keeps its prior value and the app is not
\* bootstrapped; from then on nothing changes on this page (no fetch, no
\* write, no bootstrap, no app code) until the page itself is left.  A fetch
\* is made only by a page start.
C16_FailureLeavesPageUnstarted ==
    [][/\ (mainPc = "fetching" /\ mainPc' # "fetching") =>
            /\ (response'.status # 200 \/ mainPc' = "rejected") <=> MainFailed'
            /\ MainFailed' => (localStorage' = localStorage /\ bootstraps' = 0)
       /\ (MainFailed /\ mainPc' # "loading") =>
            /\ mainPc' = mainPc
            /\ localStorage' = localStorage
            /\ fetches' = fetches
            /\ bootstraps' = 0
            /\ ~AppHasRun'
       /\ fetches' > fetches => mainPc = "loading"]_vars

\* the fetch got a 500: the value an earlier start stored is still there and
\* the app is not bootstrapped
C16_Witness ==
    /\ mainPc = "skipped"
    /\ response.status = 500
    /\ localStorage.set
    /\ localStorage.text # response.body
    /\ bootstraps = 0
    /\ fetches = 1

\* --------------------------------------------------------------------- C17
\* a URL is absolute when it begins with a scheme and an authority; of the
\* strings a URL is made of here only the API server's origin has them
IsAbsolute(url) == url # <<>> /\ url[1] = ApiOrigin

\* C17 as claimed: on the server every URL getTime() requests is absolute,
\* whatever API_SERVER is (unset and empty included).
C17_ServerUrlAbsolute ==
    (~Browser /\ tsub.st # "idle") => IsAbsolute(tsub.url)

\* --------------------------------------------------------------------- C18
\* the development server calls bypass in this step (or calls it again with
\* another outcome)
BypassActs == proxied' # proxied
\* the DEBOUNCE_TIME member of the body bypass wrote
ProxiedDebounce(p) == Get(JSONparse(p.body).value, "DEBOUNCE_TIME")

\* C18 as claimed: for the url '/config' bypass answers with a JSON object
\* whose DEBOUNCE_TIME is the environment variable whenever that is set, and
\* 500 otherwise, and returns true; for any other url it writes nothing and
\* returns nothing.
C18_EnvWheneverSet ==
    [][BypassActs =>
        /\ proxied'.url = "/config" =>
            /\ proxied'.ended
            /\ proxied'.ret = "true"
            /\ JSONparse(proxied'.body).ok
            /\ ProxiedDebounce(proxied') =
                    IF env.DEBOUNCE_TIME.type # "undefined"
                    THEN env.DEBOUNCE_TIME ELSE JsNumber("500")
        /\ proxied'.url # "/config" =>
            (~proxied'.ended /\ proxied'.ret = "undefined")]_vars

\* C18: for the url '/config' bypass answers with a JSON object whose
\* DEBOUNCE_TIME is the environment variable (a string) when that is set and
\* not empty, and the number 500 when it is unset or empty, and returns true;
\* for any other url under the context it writes nothing and returns nothing.
C18_EnvWhenNonEmpty ==
    [][BypassActs =>
        /\ proxied'.url = "/config" =>
            /\ proxied'.ended
            /\ proxied'.ret = "true"
            /\ JSONparse(proxied'.body).ok
            /\ ProxiedDebounce(proxied') =
                    IF env.DEBOUNCE_TIME.type = "string" /\ env.DEBOUNCE_TIME.text # ""
                    THEN env.DEBOUNCE_TIME ELSE JsNumber("500")
        /\ proxied'.url # "/config" =>
            (~proxied'.ended /\ proxied'.ret = "undefined")]_vars

\* DEBOUNCE_TIME is set and empty, and bypass has answered '/config' with 500
C18_Witness ==
    /\ env.DEBOUNCE_TIME = JsString("")
    /\ proxied.url = "/config"
    /\ proxied.ended
    /\ proxied.ret = "true"
    /\ ProxiedDebounce(proxied) = JsNumber("500")

====
